---- MODULE Spec2Model ----
(***************************************************************************)
(* Portfolio API (src/main.py, src/schemas.py): three document collections *)
(* behind CRUD routes, a shared-password login that issues a bearer token, *)
(* and the read-only /home and /test routes.  One action per route; every  *)
(* action records the request it served and the response it gave.          *)
(***************************************************************************)
EXTENDS Integers, Sequences, FiniteSets, TLC

VARIABLES
    db,        \* "none" when database.db is None, "ok" when a handle was opened
    now,       \* the server clock, minutes (datetime.now(timezone.utc))
    store,     \* collection name -> sequence of documents, in natural order
    nextId,    \* the next ObjectId the driver generates
    issued,    \* tokens handed out by /auth/login
    request,   \* the request served last at this clock reading
    response   \* the response it got

vars == <<db, now, store, nextId, issued, request, response>>

----------------------------------------------------------------------------
\* Bounds of the exploration.

ClockStep == 240
\* Spec: the CRUD routes.
MaxClock == 240
MaxId == 2
\* SpecAuth: the token service.
AuthMaxClock == 720
AuthMaxId == 2
AuthMaxDocs == 1
MaxTokens == 1
\* SpecHome: the aggregation route.
HomeMaxDocs == 7

----------------------------------------------------------------------------
\* Configuration (main.py 17-19).

JWT_SECRET == "supersecret"
ADMIN_PASSWORD == "admin123"
TOKEN_EXPIRE_MINUTES == 60 * 8

\* Python's None: for a datetime field, for a string field, for a URL field.
NoTime == -1
None == "None"
NoUrl == <<>>

Collections == {"project", "blogpost", "techitem"}

----------------------------------------------------------------------------
\* Entity schemas (schemas.py).

ProjectFields ==
    {"title", "slug", "summary", "description", "tech", "role", "timeline",
     "logo_url", "demo_url", "repo_url", "tags", "featured",
     "created_at", "updated_at"}

BlogPostFields ==
    {"title", "slug", "excerpt", "content", "tags", "read_time", "cover_url",
     "created_at", "updated_at"}

TechItemFields ==
    {"name", "category", "level", "icon", "created_at", "updated_at"}

Fields(c) ==
    IF c = "project" THEN ProjectFields
    ELSE IF c = "blogpost" THEN BlogPostFields
    ELSE TechItemFields

Required(c) ==
    IF c = "project" THEN {"title", "slug", "summary"}
    ELSE IF c = "blogpost" THEN {"title", "slug", "excerpt"}
    ELSE {"name"}

UrlFields == {"logo_url", "demo_url", "repo_url", "cover_url"}
ListFields == {"tech", "tags"}
TimeFields == {"created_at", "updated_at"}

\* The value a field takes when the body omits it.
FieldDefault(f) ==
    IF f \in ListFields THEN <<>>
    ELSE IF f = "featured" THEN FALSE
    ELSE IF f = "read_time" THEN 3
    ELSE IF f \in UrlFields THEN NoUrl
    ELSE IF f \in TimeFields THEN NoTime
    ELSE None

\* HttpUrl: a URL is <<scheme, host>>; the scheme must be http or https and
\* the host non-empty.
HttpUrlOk(u) ==
    u = NoUrl \/ (Len(u) = 2 /\ u[1] \in {"http", "https"} /\ u[2] # "")

\* Pydantic's validation of a request body against the entity's model.
Validate(c, body) ==
    /\ Required(c) \subseteq DOMAIN body
    /\ \A f \in DOMAIN body \cap UrlFields : HttpUrlOk(body[f])
    /\ ("read_time" \in DOMAIN body) => body["read_time"] >= 1

\* data.model_dump(): every field of the model, defaults filled in.
model_dump(c, body) ==
    [f \in Fields(c) |-> IF f \in DOMAIN body THEN body[f] ELSE FieldDefault(f)]

----------------------------------------------------------------------------
\* ObjectId <-> string (bson.ObjectId, str()).

ObjectIdStr(n) == ToString(n)

\* Every ObjectId the driver can hand out within the bounds.
ObjectIds == 1..(MaxId + AuthMaxId + HomeMaxDocs)

ObjectIdIsValid(s) == \E n \in ObjectIds : ObjectIdStr(n) = s

\* ObjectId(s), for a valid s.
ObjectIdParse(s) == CHOOSE n \in ObjectIds : ObjectIdStr(n) = s

\* datetime.isoformat(); a None stays None and travels as JSON null.
isoformat(t) == IF t = NoTime THEN "null" ELSE ToString(t)

serialize_doc(doc) ==
    [f \in (DOMAIN doc \ {"_id"}) \cup {"id"} |->
        IF f = "id" THEN ObjectIdStr(doc["_id"])
        ELSE IF f \in TimeFields THEN isoformat(doc[f])
        ELSE doc[f]]

----------------------------------------------------------------------------
\* Requests and responses.

Req(op, c, tok, arg, body, limit) ==
    [op |-> op, c |-> c, tok |-> tok, arg |-> arg, body |-> body, limit |-> limit]

Resp(status, detail, result) ==
    [status |-> status, detail |-> detail, result |-> result]

HTTPException(status, detail) == Resp(status, detail, <<>>)

\* An exception no handler catches: the framework answers 500.
UnhandledError == Resp(500, "Internal Server Error", <<>>)

\* Pydantic rejected the body: the framework answers 422.
RequestValidationError == Resp(422, "Unprocessable Entity", <<>>)

----------------------------------------------------------------------------
\* Token service (main.py 21-40).

NoToken == [kind |-> "none", key |-> "", role |-> "", exp |-> 0]
MalformedToken == [kind |-> "malformed", key |-> "", role |-> "", exp |-> 0]
Jwt(key, role, exp) == [kind |-> "jwt", key |-> key, role |-> role, exp |-> exp]

\* Faulty variant: the lifetime taken as one hour.
create_token_one_hour(payload, t) ==
    Jwt(JWT_SECRET, payload.role, t + 60)

create_token(payload, t) ==
    Jwt(JWT_SECRET, payload.role, t + TOKEN_EXPIRE_MINUTES)

\* Faulty variant: the signature is not verified.
jwt_decode_unverified(tok, t) ==
    IF tok.kind # "jwt" THEN "DecodeError"
    ELSE IF tok.exp <= t THEN "ExpiredSignatureError"
    ELSE "ok"

\* jwt.decode(token, JWT_SECRET, algorithms=["HS256"]) at time t: the
\* exception it raises, or "ok".  The signature is verified before exp.
jwt_decode(tok, t) ==
    IF tok.kind # "jwt" THEN "DecodeError"
    ELSE IF tok.key # JWT_SECRET THEN "InvalidSignatureError"
    ELSE IF tok.exp <= t THEN "ExpiredSignatureError"
    ELSE "ok"

\* The body of require_admin: what is raised inside the try block, and what
\* the except clauses turn it into.
require_admin(tok, t) ==
    LET raised ==
            IF jwt_decode(tok, t) # "ok" THEN jwt_decode(tok, t)
            ELSE IF tok.role # "admin" THEN "HTTPException"
            ELSE "nothing"
    IN  IF raised = "nothing" THEN Resp(200, "", [role |-> tok.role, exp |-> tok.exp])
        ELSE IF raised = "ExpiredSignatureError" THEN HTTPException(401, "Token expired")
        ELSE HTTPException(401, "Invalid token")

\* Depends(require_admin) behind HTTPBearer(): the outcomes of authenticating
\* a request.  A request without bearer credentials is refused by HTTPBearer
\* itself, with 403 or 401 depending on the framework's version.
Authenticate(tok, t) ==
    IF tok.kind = "none"
    THEN {HTTPException(403, "Not authenticated"), HTTPException(401, "Not authenticated")}
    ELSE {require_admin(tok, t)}

----------------------------------------------------------------------------
\* Document store adapter: the operations of a pymongo collection.

\* ensure_db, as collection(name) calls it.
DbUnavailable == HTTPException(500, "Database not available. Configure DATABASE_URL and DATABASE_NAME.")

\* Names in ascending string order, for sort("name", 1).
NameOrder == <<"Go", "Python", "Rust">>
NameRank(s) == CHOOSE i \in 1..Len(NameOrder) : NameOrder[i] = s

\* The sort key a value has: datetimes by value with null lowest, names by
\* string order.
SortKey(doc, field) ==
    IF field = "name" THEN NameRank(doc[field]) ELSE doc[field]

\* Faulty variant: the direction is ignored, every sort ascending.
Before_ascending(a, b, field, dir) ==
    SortKey(a, field) < SortKey(b, field)

\* Whether a goes before b under sort(field, dir).
Before(a, b, field, dir) ==
    IF dir = 1 THEN SortKey(a, field) < SortKey(b, field)
    ELSE SortKey(a, field) > SortKey(b, field)

RECURSIVE Insert(_, _, _, _)
\* d inserted into the sorted sequence s, after the documents it ties with.
Insert(s, d, field, dir) ==
    IF s = <<>> THEN <<d>>
    ELSE IF Before(d, Head(s), field, dir) THEN <<d>> \o s
    ELSE <<Head(s)>> \o Insert(Tail(s), d, field, dir)

RECURSIVE Sort(_, _, _)
\* cursor.sort(field, dir): ties keep the natural order.
Sort(s, field, dir) ==
    IF s = <<>> THEN <<>>
    ELSE Insert(Sort(SubSeq(s, 1, Len(s) - 1), field, dir), s[Len(s)], field, dir)

\* cursor.limit(n).
Limit(s, n) == IF n < Len(s) THEN SubSeq(s, 1, n) ELSE s

\* find_one({"slug": slug}): the first match in natural order, or 0 for None.
find_one(docs, slug) ==
    IF \E i \in 1..Len(docs) : docs[i]["slug"] = slug
    THEN CHOOSE i \in 1..Len(docs) :
            /\ docs[i]["slug"] = slug
            /\ \A j \in 1..(i - 1) : docs[j]["slug"] # slug
    ELSE 0

\* The index of the document with this _id, or 0.
IndexOfId(docs, oid) ==
    IF \E i \in 1..Len(docs) : docs[i]["_id"] = oid
    THEN CHOOSE i \in 1..Len(docs) : docs[i]["_id"] = oid
    ELSE 0

\* insert_one(doc): the driver adds a fresh _id.
insert_one(docs, doc, oid) ==
    Append(docs, [f \in DOMAIN doc \cup {"_id"} |-> IF f = "_id" THEN oid ELSE doc[f]])

\* Faulty variant: the filter is dropped, the patch applied to every document.
update_many(docs, i, patch) ==
    [k \in 1..Len(docs) |->
        [f \in DOMAIN docs[k] \cup DOMAIN patch |->
            IF f \in DOMAIN patch THEN patch[f] ELSE docs[k][f]]]

\* update_one({"_id": oid}, {"$set": patch}) on a document that matched.
update_one(docs, i, patch) ==
    [docs EXCEPT ![i] =
        [f \in DOMAIN docs[i] \cup DOMAIN patch |->
            IF f \in DOMAIN patch THEN patch[f] ELSE docs[i][f]]]

\* Faulty variant: the first document in natural order is removed.
delete_one_first(docs, i) ==
    Tail(docs)

\* delete_one({"_id": oid}) on a document that matched.
delete_one(docs, i) ==
    SubSeq(docs, 1, i - 1) \o SubSeq(docs, i + 1, Len(docs))

\* Whether the BSON encoder accepts the document: a pydantic Url object is
\* not a BSON type, and drivers differ in whether they can encode it.
BsonEncode(doc) ==
    IF \E f \in DOMAIN doc \cap UrlFields : doc[f] # NoUrl
    THEN {TRUE, FALSE}
    ELSE {TRUE}

\* {**data.model_dump(), "updated_at": now}
UpdatePatch(c, body, t) ==
    [f \in Fields(c) |-> IF f = "updated_at" THEN t ELSE model_dump(c, body)[f]]

\* Faulty variant: the timestamps of the body are kept when it supplies them.
CreateDoc_keeps_client_times(c, body, t) ==
    [f \in Fields(c) |->
        IF f \in TimeFields /\ f \notin DOMAIN body THEN t ELSE model_dump(c, body)[f]]

\* doc = data.model_dump(); doc["created_at"] = now; doc["updated_at"] = now
CreateDoc(c, body, t) ==
    [f \in Fields(c) |-> IF f \in TimeFields THEN t ELSE model_dump(c, body)[f]]

----------------------------------------------------------------------------
\* The state after start-up: db is fixed when the database module is
\* imported; nothing has been requested.

NoBody == <<>>

Init ==
    /\ db \in {"none", "ok"}
    /\ now = 0
    /\ store = [c \in Collections |-> <<>>]
    /\ nextId = 1
    /\ issued = {}
    /\ request = Req("start", "", NoToken, "", NoBody, 0)
    /\ response = Resp(200, "", <<>>)

\* Time passes; no request has been served at the new clock reading yet.
Tick(d) ==
    /\ now' = now + d
    /\ request' = Req("tick", "", NoToken, "", NoBody, 0)
    /\ response' = Resp(200, "", <<>>)
    /\ UNCHANGED <<db, store, nextId, issued>>

----------------------------------------------------------------------------
\* Routes.

\* GET /
root ==
    /\ request' = Req("root", "", NoToken, "", NoBody, 0)
    /\ response' = Resp(200, "", [message |-> "Portfolio API running"])
    /\ UNCHANGED <<db, now, store, nextId, issued>>

\* POST /auth/login
login(password) ==
    /\ request' = Req("login", "", NoToken, password, NoBody, 0)
    /\ IF password # ADMIN_PASSWORD
       THEN /\ response' = HTTPException(401, "Invalid credentials")
            /\ UNCHANGED issued
       ELSE LET token == create_token([role |-> "admin"], now)
            IN  /\ response' = Resp(200, "", [access_token |-> token, token_type |-> "bearer"])
                /\ issued' = issued \cup {token}
    /\ UNCHANGED <<db, now, store, nextId>>

\* GET /projects, GET /blog, GET /tech: sort, then limit when one is given.
list(c, limit) ==
    /\ request' = Req("list", c, NoToken, "", NoBody, limit)
    /\ IF db = "none"
       THEN response' = DbUnavailable
       ELSE LET cur == IF c = "techitem" THEN Sort(store[c], "name", 1)
                       ELSE Sort(store[c], "created_at", -1)
                cut == IF c # "techitem" /\ limit # 0 THEN Limit(cur, limit) ELSE cur
            IN  response' = Resp(200, "", [i \in 1..Len(cut) |-> serialize_doc(cut[i])])
    /\ UNCHANGED <<db, now, store, nextId, issued>>

\* Faulty variant: the handle is not checked, a missing store reads as an empty one.
GetBySlug_unchecked(handle, c, docs, slug) ==
    IF find_one(docs, slug) = 0
    THEN HTTPException(404, IF c = "project" THEN "Project not found" ELSE "Post not found")
    ELSE Resp(200, "", serialize_doc(docs[find_one(docs, slug)]))

\* What GET /projects/slug/{slug}, GET /blog/slug/{slug} answer over the
\* documents docs of collection c, given the database handle.
GetBySlug(handle, c, docs, slug) ==
    IF handle = "none"
    THEN DbUnavailable
    ELSE IF find_one(docs, slug) = 0
    THEN HTTPException(404, IF c = "project" THEN "Project not found" ELSE "Post not found")
    ELSE Resp(200, "", serialize_doc(docs[find_one(docs, slug)]))

\* The same, in the current state.
GetBySlugResponse(c, slug) == GetBySlug(db, c, store[c], slug)

\* GET /projects/slug/{slug}, GET /blog/slug/{slug}
get_by_slug(c, slug) ==
    /\ request' = Req("get_by_slug", c, NoToken, slug, NoBody, 0)
    /\ response' = GetBySlugResponse(c, slug)
    /\ UNCHANGED <<db, now, store, nextId, issued>>

\* POST /projects, POST /blog, POST /tech
create(c, tok, body) ==
    /\ request' = Req("create", c, tok, "", body, 0)
    /\ \E auth \in Authenticate(tok, now) :
        IF auth.status # 200
        THEN response' = auth /\ UNCHANGED <<store, nextId>>
        ELSE IF ~Validate(c, body)
        THEN response' = RequestValidationError /\ UNCHANGED <<store, nextId>>
        ELSE IF db = "none"
        THEN response' = DbUnavailable /\ UNCHANGED <<store, nextId>>
        ELSE \E encoded \in BsonEncode(CreateDoc(c, body, now)) :
            IF ~encoded
            THEN response' = UnhandledError /\ UNCHANGED <<store, nextId>>
            ELSE /\ store' = [store EXCEPT ![c] = insert_one(@, CreateDoc(c, body, now), nextId)]
                 /\ nextId' = nextId + 1
                 /\ response' = Resp(200, "", [id |-> ObjectIdStr(nextId)])
    /\ UNCHANGED <<db, now, issued>>

\* PUT /projects/{id}, PUT /blog/{id}, PUT /tech/{id}
update(c, tok, id, body) ==
    /\ request' = Req("update", c, tok, id, body, 0)
    /\ \E auth \in Authenticate(tok, now) :
        IF auth.status # 200
        THEN response' = auth /\ UNCHANGED store
        ELSE IF ~Validate(c, body)
        THEN response' = RequestValidationError /\ UNCHANGED store
        ELSE IF db = "none"
        THEN response' = DbUnavailable /\ UNCHANGED store
        ELSE IF ~ObjectIdIsValid(id)
        THEN response' = UnhandledError /\ UNCHANGED store
        ELSE \E encoded \in BsonEncode(UpdatePatch(c, body, now)) :
            IF ~encoded
            THEN response' = UnhandledError /\ UNCHANGED store
            ELSE IF IndexOfId(store[c], ObjectIdParse(id)) = 0
            THEN response' = HTTPException(404, "Not found") /\ UNCHANGED store
            ELSE /\ store' = [store EXCEPT ![c] =
                        update_one(@, IndexOfId(@, ObjectIdParse(id)), UpdatePatch(c, body, now))]
                 /\ response' = Resp(200, "", [ok |-> TRUE])
    /\ UNCHANGED <<db, now, nextId, issued>>

\* DELETE /projects/{id}, DELETE /blog/{id}, DELETE /tech/{id}
delete(c, tok, id) ==
    /\ request' = Req("delete", c, tok, id, NoBody, 0)
    /\ \E auth \in Authenticate(tok, now) :
        IF auth.status # 200
        THEN response' = auth /\ UNCHANGED store
        ELSE IF db = "none"
        THEN response' = DbUnavailable /\ UNCHANGED store
        ELSE IF ~ObjectIdIsValid(id)
        THEN response' = UnhandledError /\ UNCHANGED store
        ELSE IF IndexOfId(store[c], ObjectIdParse(id)) = 0
        THEN response' = HTTPException(404, "Not found") /\ UNCHANGED store
        ELSE /\ store' = [store EXCEPT ![c] = delete_one(@, IndexOfId(@, ObjectIdParse(id)))]
             /\ response' = Resp(200, "", [ok |-> TRUE])
    /\ UNCHANGED <<db, now, nextId, issued>>

\* GET /home
home_data ==
    /\ request' = Req("home", "", NoToken, "", NoBody, 0)
    /\ IF db = "none"
       THEN response' = DbUnavailable
       ELSE LET projects == Limit(Sort(store["project"], "created_at", -1), 6)
                posts == Limit(Sort(store["blogpost"], "created_at", -1), 3)
                tech == Sort(store["techitem"], "name", 1)
            IN  response' = Resp(200, "",
                    [projects |-> [i \in 1..Len(projects) |-> serialize_doc(projects[i])],
                     posts |-> [i \in 1..Len(posts) |-> serialize_doc(posts[i])],
                     tech |-> [i \in 1..Len(tech) |-> serialize_doc(tech[i])]])
    /\ UNCHANGED <<db, now, store, nextId, issued>>

\* GET /test: listing the collections may fail, and the failure is reported
\* in the body, not raised.
test_database ==
    /\ request' = Req("test", "", NoToken, "", NoBody, 0)
    /\ \E listed \in BOOLEAN :
        response' = Resp(200, "",
            IF db = "none"
            THEN [backend |-> "Running", database |-> "Not configured",
                  connection_status |-> "Not Connected"]
            ELSE IF listed
            THEN [backend |-> "Running", database |-> "Available",
                  connection_status |-> "Connected"]
            ELSE [backend |-> "Running", database |-> "Error",
                  connection_status |-> "Connected"])
    /\ UNCHANGED <<db, now, store, nextId, issued>>

----------------------------------------------------------------------------
\* The requests a client sends: small sets of tokens, bodies, identifiers.

\* A token the administrator got from an earlier login and that outlives the
\* exploration.
AdminToken == Jwt(JWT_SECRET, "admin", AuthMaxClock + ClockStep + TOKEN_EXPIRE_MINUTES)

\* Schema-valid bodies: the least one, and one that fills optional fields,
\* repeats the first one's slug and supplies a created_at of its own.
ValidBodies(c) ==
    IF c = "project" THEN
        {[title |-> "X", slug |-> "x", summary |-> "s"],
         [title |-> "X2", slug |-> "x", summary |-> "s", featured |-> TRUE,
          tags |-> <<"t">>, logo_url |-> <<"https", "example.com">>,
          created_at |-> 100]}
    ELSE IF c = "blogpost" THEN
        {[title |-> "A", slug |-> "a", excerpt |-> "e"],
         [title |-> "A2", slug |-> "a", excerpt |-> "e", read_time |-> 5,
          created_at |-> 100]}
    ELSE
        {[name |-> "Go", category |-> "language", created_at |-> 100]}

\* Bodies the schema rejects: a required field missing, a malformed URL, a
\* read_time below 1.
InvalidBodies(c) ==
    IF c = "project" THEN
        {[title |-> "X"],
         [title |-> "X", slug |-> "x", summary |-> "s", repo_url |-> <<"ftp", "example.com">>]}
    ELSE IF c = "blogpost" THEN
        {[title |-> "A", slug |-> "a", excerpt |-> "e", read_time |-> 0]}
    ELSE
        {[category |-> "language"]}

\* A body that lacks a required field.
IncompleteBody(c) == IF c = "techitem" THEN [category |-> "language"] ELSE [title |-> "X"]

\* The least valid body of each entity.
LeastBody(c) ==
    IF c = "project" THEN [title |-> "X", slug |-> "x", summary |-> "s"]
    ELSE IF c = "blogpost" THEN [title |-> "A", slug |-> "a", excerpt |-> "e"]
    ELSE [name |-> "Go"]

Slugs == {"x", "a"}

BadId == "not-an-id"

GoodIds == {ObjectIdStr(n) : n \in 1..MaxId}

TotalDocs == Len(store["project"]) + Len(store["blogpost"]) + Len(store["techitem"])

\* <<token, body>> of the create requests explored.
CreateInputs(c) ==
    {<<AdminToken, b>> : b \in ValidBodies(c) \cup InvalidBodies(c)}
        \cup {<<NoToken, LeastBody(c)>>}

\* <<token, id, body>> of the update requests explored.
UpdateInputs(c) ==
    {<<AdminToken, id, LeastBody(c)>> : id \in GoodIds}
        \cup {<<AdminToken, ObjectIdStr(1), b>> : b \in ValidBodies(c)}
        \cup {<<AdminToken, ObjectIdStr(1), IncompleteBody(c)>>}
        \cup {<<AdminToken, BadId, LeastBody(c)>>, <<NoToken, ObjectIdStr(1), LeastBody(c)>>}

\* <<token, id>> of the delete requests explored.
DeleteInputs ==
    {<<AdminToken, id>> : id \in GoodIds \cup {BadId}} \cup {<<NoToken, ObjectIdStr(1)>>}

Next ==
    \/ (now + ClockStep <= MaxClock /\ Tick(ClockStep))
    \/ root
    \/ \E c \in Collections, limit \in {0, 1} : (c = "techitem" => limit = 0) /\ list(c, limit)
    \/ \E c \in {"project", "blogpost"}, slug \in Slugs : get_by_slug(c, slug)
    \/ \E c \in Collections : \E in \in CreateInputs(c) :
            nextId <= MaxId /\ create(c, in[1], in[2])
    \/ \E c \in Collections : \E in \in UpdateInputs(c) : update(c, in[1], in[2], in[3])
    \/ \E c \in Collections, in \in DeleteInputs : delete(c, in[1], in[2])
    \/ home_data
    \/ test_database

Spec == Init /\ [][Next]_vars

----------------------------------------------------------------------------
\* The token service explored: every kind of token on every admin route, the
\* administrator's tokens coming from /auth/login.

ForeignTokens ==
    {NoToken, MalformedToken,
     Jwt("not-the-secret", "admin", AuthMaxClock + ClockStep + TOKEN_EXPIRE_MINUTES),
     Jwt(JWT_SECRET, "user", AuthMaxClock + ClockStep + TOKEN_EXPIRE_MINUTES)}

NextAuth ==
    \/ (now + ClockStep <= AuthMaxClock /\ Tick(ClockStep))
    \/ \E password \in {ADMIN_PASSWORD, "guess"} :
            /\ password = ADMIN_PASSWORD =>
                    Cardinality(issued \cup {create_token([role |-> "admin"], now)}) <= MaxTokens
            /\ login(password)
    \/ \E c \in Collections, tok \in ForeignTokens \cup issued :
            nextId <= AuthMaxId /\ TotalDocs < AuthMaxDocs /\ create(c, tok, LeastBody(c))
    \/ \E c \in Collections, tok \in ForeignTokens \cup issued :
            update(c, tok, ObjectIdStr(1), LeastBody(c))
    \/ \E c \in Collections, tok \in ForeignTokens \cup issued :
            delete(c, tok, ObjectIdStr(1))

SpecAuth == Init /\ [][NextAuth]_vars

----------------------------------------------------------------------------
\* The aggregation route explored: collections that outgrow the limits of
\* /home, with creation times out of insertion order.

HomeBodies(c) ==
    IF c = "techitem" THEN {[name |-> "Rust"], [name |-> "Go"]}
    ELSE {LeastBody(c)}

\* Updates that move a document's created_at (to null, or to the client's).
HomeUpdates(c) ==
    IF c = "techitem" THEN {[name |-> "Python"]}
    ELSE ValidBodies(c)

\* The collections are filled one after the other.
FilledAfter(c) ==
    IF c = "project" THEN {"blogpost", "techitem"}
    ELSE IF c = "blogpost" THEN {"techitem"}
    ELSE {}

NextHome ==
    \/ (now + ClockStep <= MaxClock /\ Tick(ClockStep))
    \/ \E c \in Collections : \E body \in HomeBodies(c) :
            /\ TotalDocs < HomeMaxDocs
            /\ \A later \in FilledAfter(c) : store[later] = <<>>
            /\ create(c, AdminToken, body)
    \/ \E c \in Collections : \E body \in HomeUpdates(c) :
            update(c, AdminToken, ObjectIdStr(2), body)
    \/ home_data

SpecHome == Init /\ [][NextHome]_vars

----------------------------------------------------------------------------
\* Vocabulary of the properties.

AdminOps == {"create", "update", "delete"}

SlugCollections == {"project", "blogpost"}

\* A correctly signed, unexpired token whose role is "admin".
ValidAdmin(tok, t) ==
    tok.kind = "jwt" /\ tok.key = JWT_SECRET /\ t < tok.exp /\ tok.role = "admin"

\* A correctly signed, unexpired token.
SignedUnexpired(tok, t) ==
    tok.kind = "jwt" /\ tok.key = JWT_SECRET /\ t < tok.exp

Min(a, b) == IF a < b THEN a ELSE b

\* The stored document a rendered document stands for.
StoredDoc(c, rendered) == store[c][IndexOfId(store[c], ObjectIdParse(rendered["id"]))]

----------------------------------------------------------------------------
\* C1: a successful update leaves created_at of every document as it was and
\* never moves updated_at backwards.
C1_UpdateKeepsCreatedAt ==
    [][(request'.op = "update" /\ response'.status = 200) =>
        \A i \in 1..Len(store[request'.c]) :
            /\ store'[request'.c][i]["created_at"] = store[request'.c][i]["created_at"]
            /\ store'[request'.c][i]["updated_at"] >= store[request'.c][i]["updated_at"]]_vars

\* C2: on an admin route a token that is malformed, wrongly signed or expired
\* is answered 401, a correctly signed unexpired token whose role is not
\* "admin" is answered 403, and only role "admin" gets past the check.
C2_VerifyOutcomes ==
    (request.op \in AdminOps /\ request.tok.kind # "none") =>
        /\ ~SignedUnexpired(request.tok, now) => response.status = 401
        /\ (SignedUnexpired(request.tok, now) /\ request.tok.role # "admin") =>
                response.status = 403
        /\ response.status \notin {401, 403} => request.tok.role = "admin"

\* C3: the collections change only in a create, update or delete step that
\* carries a valid admin token; any other token (or none) is answered 401 or
\* 403 with the store untouched, whichever the entity, and a valid admin
\* token is never answered 401 or 403, whichever the entity.
C3_OnlyAdminWrites ==
    [][/\ store' # store =>
            (request'.op \in AdminOps /\ ValidAdmin(request'.tok, now'))
       /\ (request'.op \in AdminOps /\ ~ValidAdmin(request'.tok, now')) =>
            (response'.status \in {401, 403} /\ store' = store /\ nextId' = nextId)
       /\ (request'.op \in AdminOps /\ ValidAdmin(request'.tok, now')) =>
            response'.status \notin {401, 403}]_vars

\* A forged token was refused on a delete while the document it aimed at
\* stayed in the store.
C3_Witness ==
    /\ request.op = "delete"
    /\ request.tok.kind = "jwt" /\ request.tok.key # JWT_SECRET
    /\ response.status = 401
    /\ IndexOfId(store[request.c], 1) # 0

\* C4: login with a wrong password is answered 401; with the right one it
\* returns a "bearer" token of role "admin" that expires 8 hours after it was
\* issued; on POST /projects that token is accepted at every time before its
\* expiry and answered 401 at every time after it, whatever happened since.
C4_LoginTokenLifetime ==
    /\ request.op = "login" =>
            IF request.arg # ADMIN_PASSWORD THEN response.status = 401
            ELSE /\ response.status = 200
                 /\ response.result.token_type = "bearer"
                 /\ response.result.access_token.role = "admin"
                 /\ response.result.access_token.exp = now + 8 * 60
                 /\ response.result.access_token \in issued
    /\ (request.op = "create" /\ request.c = "project" /\ request.tok \in issued) =>
            /\ now < request.tok.exp => response.status \notin {401, 403}
            /\ now > request.tok.exp => response.status = 401
    /\ \A tok \in issued :
            /\ now < tok.exp => require_admin(tok, now).status = 200
            /\ now > tok.exp => require_admin(tok, now).status = 401

\* A token from login was refused on POST /projects after its expiry.
C4_Witness ==
    /\ request.op = "create" /\ request.c = "project"
    /\ request.tok \in issued
    /\ now > request.tok.exp
    /\ response.status = 401

\* C5: with the store configured, an admin's update or delete whose {id} is
\* not a well-formed identifier is answered 400 or 422.
C5_BadIdIsValidationError ==
    (/\ request.op \in {"update", "delete"}
     /\ db = "ok"
     /\ ValidAdmin(request.tok, now)
     /\ ~ObjectIdIsValid(request.arg)) =>
        response.status \in {400, 422}

----------------------------------------------------------------------------
\* The step just taken is an admin's delete, on a Project or BlogPost
\* collection of a configured store, of a well-formed identifier.
DeleteStep ==
    /\ request'.op = "delete"
    /\ request'.c \in SlugCollections
    /\ db = "ok"
    /\ ValidAdmin(request'.tok, now')
    /\ ObjectIdIsValid(request'.arg)

\* The delete just taken answered 404 and changed nothing when no document
\* had the identifier, and otherwise removed the document at position i and
\* no other.
DeleteRemovesExactly(c, i) ==
    IF i = 0
    THEN response'.status = 404 /\ store' = store
    ELSE /\ response'.status = 200
         /\ Len(store'[c]) = Len(store[c]) - 1
         /\ \A j \in 1..Len(store'[c]) :
                store'[c][j] = store[c][IF j < i THEN j ELSE j + 1]
         /\ \A other \in Collections \ {c} : store'[other] = store[other]

----------------------------------------------------------------------------
\* What a successful create of a Project or BlogPost must read back as: the
\* payload's fields, the defaults of the fields it omits, the identifier the
\* create returned, and the server's clock reading in both timestamps.
ReadsBackAsCreated(got) ==
    /\ got.status = 200
    /\ got.result["id"] = response.result["id"]
    /\ \A f \in DOMAIN request.body \ TimeFields : got.result[f] = request.body[f]
    /\ ("tech" \in Fields(request.c) \ DOMAIN request.body) => got.result["tech"] = <<>>
    /\ ("tags" \notin DOMAIN request.body) => got.result["tags"] = <<>>
    /\ ("featured" \in Fields(request.c) \ DOMAIN request.body) => got.result["featured"] = FALSE
    /\ ("read_time" \in Fields(request.c) \ DOMAIN request.body) => got.result["read_time"] = 3
    /\ got.result["created_at"] = ToString(now)
    /\ got.result["updated_at"] = ToString(now)

CreatedSlugDoc ==
    /\ request.op = "create"
    /\ request.c \in SlugCollections
    /\ response.status = 200

----------------------------------------------------------------------------
\* rendered lists, most recent first, the n most recent documents of
\* collection c (all of them when there are fewer).
MostRecent(c, rendered, n) ==
    /\ Len(rendered) = Min(n, Len(store[c]))
    /\ \A i \in 1..Len(rendered) :
            /\ ObjectIdIsValid(rendered[i]["id"])
            /\ IndexOfId(store[c], ObjectIdParse(rendered[i]["id"])) # 0
            /\ rendered[i] = serialize_doc(StoredDoc(c, rendered[i]))
    /\ \A i, j \in 1..Len(rendered) : i < j =>
            /\ rendered[i]["id"] # rendered[j]["id"]
            /\ StoredDoc(c, rendered[i])["created_at"] >= StoredDoc(c, rendered[j])["created_at"]
    /\ \A k \in 1..Len(store[c]) :
            \/ \E i \in 1..Len(rendered) : rendered[i]["id"] = ObjectIdStr(store[c][k]["_id"])
            \/ \A i \in 1..Len(rendered) :
                    store[c][k]["created_at"] <= StoredDoc(c, rendered[i])["created_at"]

\* rendered lists every tech item once, names ascending.
AllByName(rendered) ==
    /\ Len(rendered) = Len(store["techitem"])
    /\ \A k \in 1..Len(store["techitem"]) :
            \E i \in 1..Len(rendered) :
                rendered[i] = serialize_doc(store["techitem"][k])
    /\ \A i, j \in 1..Len(rendered) : i < j =>
            /\ rendered[i]["id"] # rendered[j]["id"]
            /\ NameRank(rendered[i]["name"]) <= NameRank(rendered[j]["name"])

HomeCorrect ==
    /\ response.status = 200
    /\ MostRecent("project", response.result.projects, 6)
    /\ MostRecent("blogpost", response.result.posts, 3)
    /\ AllByName(response.result.tech)

\* C8: on a configured store GET /home, sent without a token, changes
\* nothing and returns the min(6, n) most recent projects and the min(3, n)
\* most recent posts by created_at, most recent first, and every tech item by
\* ascending name.
C8_HomeLists ==
    [][request'.op = "home" =>
        /\ request'.tok = NoToken
        /\ store' = store /\ nextId' = nextId
        /\ db = "ok" => HomeCorrect']_vars

\* /home answered over seven projects, leaving out the second one created,
\* whose created_at an update has since set to null.
C8_Witness ==
    /\ request.op = "home" /\ response.status = 200
    /\ Len(store["project"]) = 7
    /\ Len(response.result.projects) = 6
    /\ store["project"][2]["created_at"] = NoTime
    /\ \A i \in 1..6 : response.result.projects[i]["id"] # ObjectIdStr(store["project"][2]["_id"])

----------------------------------------------------------------------------
\* The request got past authentication and body validation.
ReachesAdapter ==
    \/ request.op \in {"list", "get_by_slug", "home"}
    \/ /\ request.op \in AdminOps
       /\ ValidAdmin(request.tok, now)
       /\ request.op = "delete" \/ Validate(request.c, request.body)

\* C9: with no store configured, every data-route request that reaches the
\* adapter is answered with the "Database not available" error, which is not
\* the 404 of a missing document, and GET /test is answered 200 and reports
\* the store as not configured.
C9_NoStore ==
    db = "none" =>
        /\ ReachesAdapter =>
                /\ response.status = 500
                /\ response.detail = "Database not available. Configure DATABASE_URL and DATABASE_NAME."
                /\ response.status # 404
        /\ request.op = "test" =>
                /\ response.status = 200
                /\ response.result.database = "Not configured"

\* With no store configured an admin's update of a malformed identifier was
\* answered "Database not available".
C9_Witness ==
    /\ db = "none"
    /\ request.op = "update" /\ ReachesAdapter
    /\ request.arg = BadId
    /\ response.status = 500

----------------------------------------------------------------------------
\* C10: a create, update or delete that ends in an error leaves the three
\* collections as they were; one that succeeds inserts one document, changes
\* one document or removes one document of its own collection, and leaves
\* the other documents, the other collections and every identifier as they
\* were.
C10_AllOrNothing ==
    [][request'.op \in AdminOps =>
        LET c == request'.c
            before == store[c]
            after == store'[c]
        IN  IF response'.status # 200
            THEN store' = store
            ELSE /\ \A other \in Collections \ {c} : store'[other] = store[other]
                 /\ request'.op = "create" =>
                        /\ Len(after) = Len(before) + 1
                        /\ \A i \in 1..Len(before) : after[i] = before[i]
                        /\ \A i \in 1..Len(before) : before[i]["_id"] # after[Len(after)]["_id"]
                 /\ request'.op = "update" =>
                        /\ Len(after) = Len(before)
                        /\ \A i \in 1..Len(before) : after[i]["_id"] = before[i]["_id"]
                        /\ \E i \in 1..Len(before) :
                                /\ before[i]["_id"] = ObjectIdParse(request'.arg)
                                /\ \A j \in 1..Len(before) : j # i => after[j] = before[j]
                 /\ request'.op = "delete" =>
                        /\ Len(after) = Len(before) - 1
                        /\ \E i \in 1..Len(before) :
                                /\ before[i]["_id"] = ObjectIdParse(request'.arg)
                                /\ \A j \in 1..Len(after) :
                                        after[j] = before[IF j < i THEN j ELSE j + 1]]_vars

\* An update succeeded in a collection that holds a second document.
C10_Witness ==
    /\ request.op = "update" /\ response.status = 200
    /\ Len(store[request.c]) = 2
    /\ store[request.c][2]["_id"] = ObjectIdParse(request.arg)

====
